---- MODULE Spec2Model ----
(***************************************************************************)
(* State-machine model of the BrainDrive PageContext service-bridge        *)
(* example plugin: the PageContextListener component (change history),     *)
(* the PageContextDisplay component, the PluginPageContextService wrapper  *)
(* and the main component ServiceExamplePageContext, together with the     *)
(* host bridge and theme service objects they subscribe to.                *)
(***************************************************************************)
EXTENDS Integers, Sequences, FiniteSets, TLC

VARIABLES
    listener,   \* PageContextListener instance: props, state, pageContextUnsubscribe, pending setState queue,
                \* and tracked, the events counted since an attach that found a context
                \* (the initial load and every notification; 0 when none is counted)
    registry,   \* callbacks currently registered with the host bridges
    service,    \* PluginPageContextService instance: its private fields
    handles,    \* unsubscribe functions the wrapper returned to its callers
    display,    \* PageContextDisplay instance: props, state, pageContextUnsubscribe
    plugin,     \* ServiceExamplePageContext instance: props, state, themeChangeListener,
                \* the closures it created and the delays it is waiting for
    themeListeners, \* callbacks currently registered with the theme services
    now,        \* the wall clock read by `new Date()`
    last        \* the operation that ran last, with its inputs and the host's answers

vars == <<listener, registry, service, handles, display, plugin, themeListeners, now, last>>

----------------------------------------------------------------------------
(* Bounds of the model *)

\* clock readings available to the attach scenarios
MaxClock == 3
\* clock readings available to the scenarios with the full payload domain
MaxPayloadClock == 2
\* clock readings available to the long-history scenarios
MaxLongClock == 16
\* setState updaters React may hold back before it renders
MaxPending == 2
\* callbacks the host bridges are able to hold at once
MaxSubs == 2
\* successful operations the wrapper counts
MaxOps == 1
\* theme-change closures the main component creates
MaxClosures == 2

----------------------------------------------------------------------------
(* JavaScript values crossing the bridge *)

\* a property that is missing reads as undefined
Undefined == "#undefined"
\* a property holding the number 42
Num42 == "#42"

TypeOf(v) == IF v = Undefined THEN "undefined" ELSE IF v = Num42 THEN "number" ELSE "string"

\* JS truthiness of a property value (`x || ''`)
TruthyValue(v) == v \notin {"", Undefined}

Null == [type |-> "null"]

Ctx(id, name, route) == [type |-> "object", pageId |-> id, pageName |-> name, pageRoute |-> route]

PageIds == {"x", "y"}
PageNames == {"Home", "Dashboard"}
PageRoutes == {"/", "/about"}

\* well-formed PageContext records of the field domain
ValidContexts == {Ctx(i, n, r) : i \in PageIds, n \in PageNames, r \in PageRoutes}

CtxA == Ctx("x", "Home", "/")

EmptyIdCtx == Ctx("", "Home", "/")
MissingRouteCtx == Ctx("x", "Home", Undefined)
NumberNameCtx == Ctx("x", Num42, "/")

\* objects that are not well-formed PageContext records
MalformedObjects == {EmptyIdCtx, MissingRouteCtx, NumberNameCtx}

\* everything a host may hand to a change callback
AllPayloads == ValidContexts \cup MalformedObjects \cup {Null}

\* the payloads of the attach scenarios
FewPayloads == {CtxA}

\* the payload of the long-history scenarios
OnePayload == {CtxA}

\* JS truthiness of a context value (`!ctx`)
Truthy(c) == c.type = "object"

\* onPageContextChange returns without having invoked the callback
NoDelivery == [type |-> "none"]

\* the section 3 field checks: all three fields present, strings, non-empty
WellFormed(c) ==
    /\ c.type = "object"
    /\ \A f \in {"pageId", "pageName", "pageRoute"} : TypeOf(c[f]) = "string" /\ c[f] # ""

----------------------------------------------------------------------------
(* Host bridges *)

\* bridge objects the host may inject as services.pageContext
Bridges == {"b1", "b2", "noSub", "noGet", "noneOf"}

HasOnPageContextChange(b) == b \in {"b1", "b2", "noGet"}
HasGetCurrentPageContext(b) == b \in {"b1", "b2", "noSub"}

\* props.services: undefined, an object without pageContext, or one carrying a bridge
NoServices == "undefined"
NoPageContext == "empty"
ServicesValues == {NoServices, NoPageContext} \cup Bridges

\* the props of the scenarios that attach one well-behaved bridge
PlainServices == {NoPageContext, "b1"}

\* props.services?.pageContext
PageContextOf(services) == IF services \in Bridges THEN services ELSE "undefined"

\* what bridge.getCurrentPageContext() may answer; "threw" stands for an exception
Threw == [type |-> "threw"]
Retrievals == {Null, CtxA, Threw}

NoHandle == 0
SubIds == 1..MaxSubs

FreeIds(reg, held) == SubIds \ ({s.id : s \in reg} \cup {held} \cup {h.id : h \in handles})

\* a callback registered with bridge b; failed notes that a call of its
\* unsubscribe function threw
Subscription(id, b, owner, fn) ==
    [id |-> id, bridge |-> b, owner |-> owner, listener |-> fn, failed |-> FALSE]

\* the unsubscribe function the bridge returned: removes the callback, idempotent
BridgeUnsubscribe(reg, id) == {s \in reg : s.id # id}

\* the unsubscribe function throws and the callback stays registered
BridgeUnsubscribeThrows(reg, id) ==
    {IF s.id = id THEN [s EXCEPT !.failed = TRUE] ELSE s : s \in reg}

----------------------------------------------------------------------------
(* PageContextListener *)

HistoryKeep == 9

ListenerInitialState ==
    [isServiceConnected |-> FALSE,
     isListening |-> FALSE,
     error |-> "",
     changeHistory |-> <<>>,
     currentContext |-> Null]

Min(a, b) == IF a < b THEN a ELSE b

\* the change-type determination of the notification callback
ChangeType(previousContext, newContext) ==
    IF ~Truthy(previousContext) THEN "Initial Load"
    ELSE IF previousContext.pageId # newContext.pageId THEN "Page Navigation"
    ELSE IF previousContext.pageName # newContext.pageName THEN "Page Name Change"
    ELSE IF previousContext.pageRoute # newContext.pageRoute THEN "Route Change"
    ELSE "Context Update"

\* the callback's payload check: `!newContext || typeof newContext !== 'object'`
CallbackRejects(newContext) == ~Truthy(newContext)

ChangeRecord(timestamp, previousContext, newContext) ==
    [timestamp |-> timestamp,
     previousContext |-> previousContext,
     newContext |-> newContext,
     changeType |-> ChangeType(previousContext, newContext)]

\* the prepend with the slice widened by one: eleven entries survive
PrependKeepingTen(changeRecord, changeHistory) ==
    <<changeRecord>> \o SubSeq(changeHistory, 1, Min(HistoryKeep + 1, Len(changeHistory)))

\* [changeRecord, ...prevState.changeHistory.slice(0, 9)]
Prepend(changeRecord, changeHistory) ==
    <<changeRecord>> \o SubSeq(changeHistory, 1, Min(HistoryKeep, Len(changeHistory)))

\* an updater that starts the history over with the new record
ApplyUpdaterReplacing(st, changeRecord) ==
    [st EXCEPT !.currentContext = changeRecord.newContext,
               !.changeHistory = <<changeRecord>>]

\* the functional updater handed to setState by the callback
ApplyUpdater(st, changeRecord) ==
    [st EXCEPT !.currentContext = changeRecord.newContext,
               !.changeHistory = Prepend(changeRecord, @)]

RECURSIVE ApplyAll(_, _)
\* React processes the queued updaters in the order they were enqueued
ApplyAll(st, queue) ==
    IF queue = <<>> THEN st
    ELSE ApplyAll(ApplyUpdater(st, Head(queue)), Tail(queue))

\* a cleanup that forgets the handle without calling it
CleanupForgetting(handle, reg, throws) == [handle |-> NoHandle, reg |-> reg]

\* a cleanup that calls the handle and goes on holding it
CleanupKeepingHandle(handle, reg, throws) ==
    IF handle = NoHandle THEN [handle |-> NoHandle, reg |-> reg]
    ELSE IF throws THEN [handle |-> handle, reg |-> BridgeUnsubscribeThrows(reg, handle)]
    ELSE [handle |-> handle, reg |-> BridgeUnsubscribe(reg, handle)]

\* cleanup(): call the held unsubscribe and forget it; a throw skips the reset
Cleanup(handle, reg, throws) ==
    IF handle = NoHandle THEN [handle |-> NoHandle, reg |-> reg]
    ELSE IF throws THEN [handle |-> handle, reg |-> BridgeUnsubscribeThrows(reg, handle)]
    ELSE [handle |-> NoHandle, reg |-> BridgeUnsubscribe(reg, handle)]

MsgNoServices == "Services not provided to component"
MsgNoSubscribe == "PageContext Service missing onPageContextChange method"
\* the second check reporting the method of the first
MsgNoGetMisnamed == "PageContext Service missing onPageContextChange method"

MsgNoGet == "PageContext Service missing getCurrentPageContext method"
MsgSubscribeThrew == "onPageContextChange failed"

\* a catch block that resets the connection flag only
InitFailedStillListening(st, errorMessage) ==
    [st EXCEPT !.isServiceConnected = FALSE, !.error = errorMessage]

\* the catch block of initializePageContextListener
InitFailed(st, errorMessage) ==
    [st EXCEPT !.isServiceConnected = FALSE, !.isListening = FALSE, !.error = errorMessage]

\* the absent-bridge branch without the history reset
InitNoBridgeKeepingHistory(st) ==
    [st EXCEPT !.isServiceConnected = FALSE, !.isListening = FALSE, !.error = ""]

\* the branch taken when services.pageContext is absent
InitNoBridge(st) ==
    [st EXCEPT !.isServiceConnected = FALSE, !.isListening = FALSE, !.error = "",
               !.changeHistory = <<>>]

\* an initial history that records the absent context too
InitialHistoryAlways(initialContext, timestamp) ==
    <<[timestamp |-> timestamp, previousContext |-> Null,
       newContext |-> initialContext, changeType |-> "Initial Load"]>>

\* the history the successful branch starts from
InitialHistory(initialContext, timestamp) ==
    IF Truthy(initialContext)
    THEN <<[timestamp |-> timestamp, previousContext |-> Null,
            newContext |-> initialContext, changeType |-> "Initial Load"]>>
    ELSE <<>>

\* a successful branch that leaves the stored context as it was
InitConnectedKeepingContext(st, initialContext, timestamp) ==
    [st EXCEPT !.isServiceConnected = TRUE, !.isListening = TRUE, !.error = "",
               !.changeHistory = InitialHistory(initialContext, timestamp)]

\* a successful branch that puts the initial record on top of the old history
InitConnectedKeepingHistory(st, initialContext, timestamp) ==
    [st EXCEPT !.isServiceConnected = TRUE, !.isListening = TRUE,
               !.currentContext = initialContext, !.error = "",
               !.changeHistory = InitialHistory(initialContext, timestamp) \o @]

\* the two setState calls closing the successful branch
InitConnected(st, initialContext, timestamp) ==
    [st EXCEPT !.isServiceConnected = TRUE, !.isListening = TRUE,
               !.currentContext = initialContext, !.error = "",
               !.changeHistory = InitialHistory(initialContext, timestamp)]

\* the callback invoked from inside onPageContextChange, before the
\* initialization has written its state: its updater is queued in front of the
\* two setState calls of the initialization
DeliveredEarly(st, early, timestamp) ==
    IF early = NoDelivery \/ CallbackRejects(early) THEN st
    ELSE ApplyUpdater(st, ChangeRecord(timestamp, st.currentContext, early))

\* initializePageContextListener with props.services = services.  The host's
\* answers: unsubThrows (the old unsubscribe throws), retrieved (what
\* getCurrentPageContext answers), subThrows (onPageContextChange throws),
\* early (what onPageContextChange hands to the callback before it returns).
\* The pending updaters are rendered before the lifecycle method runs.
InitializePageContextListener(op, services, unsubThrows, retrieved, subThrows, early, maxClock) ==
    LET st0 == ApplyAll(listener.state, listener.pending)
        c == Cleanup(listener.pageContextUnsubscribe, registry, unsubThrows)
        b == PageContextOf(services)
        initialContext == IF retrieved = Threw THEN Null ELSE retrieved
        stamps == Truthy(initialContext)
        free == FreeIds(c.reg, c.handle)
        id == CHOOSE i \in free : \A j \in free : i <= j
        common == [listener EXCEPT !.services = services, !.phase = "mounted",
                                   !.pending = <<>>, !.tracked = 0]
        report(outcome) == [op |-> op, who |-> "Listener", services |-> services,
                            outcome |-> outcome, retrieved |-> retrieved,
                            unsubThrew |-> unsubThrows, subThrew |-> subThrows,
                            early |-> early,
                            from |-> listener.services,
                            hadHistory |-> st0.changeHistory # <<>>]
        fail(msg) ==
            /\ retrieved = Null /\ ~subThrows /\ early = NoDelivery
            /\ listener' = [common EXCEPT !.state = InitFailed(st0, msg),
                                          !.pageContextUnsubscribe = c.handle]
            /\ registry' = c.reg
            /\ now' = now
            /\ last' = report("failed")
    IN  /\ unsubThrows => listener.pageContextUnsubscribe # NoHandle
        /\ CASE services = NoServices -> fail(MsgNoServices)
             [] services = NoPageContext ->
                    /\ retrieved = Null /\ ~subThrows /\ early = NoDelivery
                    /\ listener' = [common EXCEPT !.state = InitNoBridge(st0),
                                                  !.pageContextUnsubscribe = c.handle]
                    /\ registry' = c.reg
                    /\ now' = now
                    /\ last' = report("nobridge")
             [] ~HasOnPageContextChange(b) -> fail(MsgNoSubscribe)
             [] HasOnPageContextChange(b) /\ ~HasGetCurrentPageContext(b) -> fail(MsgNoGet)
             [] OTHER ->
                    IF subThrows
                    THEN /\ early = NoDelivery
                         /\ listener' = [common EXCEPT !.state = InitFailed(st0, MsgSubscribeThrew),
                                                       !.pageContextUnsubscribe = c.handle]
                         /\ registry' = c.reg
                         /\ now' = now
                         /\ last' = report("failed")
                    ELSE /\ free # {}
                         /\ LET called == IF early = NoDelivery THEN now ELSE now + 1
                            IN  /\ now' = IF stamps THEN called + 1 ELSE called
                                /\ now' <= maxClock
                                /\ listener' = [common EXCEPT
                                        !.state = InitConnected(DeliveredEarly(st0, early, called),
                                                                initialContext, now'),
                                        !.pageContextUnsubscribe = id,
                                        !.tracked = IF stamps THEN 1 ELSE 0]
                         /\ registry' = c.reg \cup {Subscription(id, b, "Listener", "self")}
                         /\ last' = report("connected")

\* constructor + componentDidMount
Mount(services, unsubThrows, retrieved, subThrows, early, maxClock) ==
    /\ listener.phase = "new"
    /\ InitializePageContextListener("mount", services, unsubThrows, retrieved, subThrows, early, maxClock)

\* the host re-renders the component with new props: componentDidUpdate
UpdateProps(services, unsubThrows, retrieved, subThrows, early, maxClock) ==
    /\ listener.phase = "mounted"
    /\ services # listener.services
    /\ IF PageContextOf(listener.services) # PageContextOf(services)
       THEN InitializePageContextListener("update", services, unsubThrows, retrieved, subThrows, early, maxClock)
       ELSE /\ ~unsubThrows /\ retrieved = Null /\ ~subThrows /\ early = NoDelivery
            /\ listener' = [listener EXCEPT !.services = services,
                                            !.state = ApplyAll(@, listener.pending),
                                            !.pending = <<>>]
            /\ last' = [op |-> "rerender", who |-> "Listener", services |-> services]
            /\ UNCHANGED <<registry, now>>

\* a bridge invokes the callback registered under id with newContext; React
\* renders the queued update at once (flushNow) or holds it back
Notify(id, newContext, flushNow, maxClock) ==
    /\ \E s \in registry : s.id = id /\ s.owner = "Listener"
    /\ now < maxClock
    /\ now' = now + 1
    /\ LET previousContext == listener.state.currentContext
           changeRecord == ChangeRecord(now', previousContext, newContext)
           queue == Append(listener.pending, changeRecord)
           counted == IF listener.tracked > 0 /\ WellFormed(newContext)
                      THEN listener.tracked + 1
                      ELSE 0
           report(outcome) == [op |-> "notify", who |-> "Listener", id |-> id,
                               payload |-> newContext, outcome |-> outcome]
       IN  IF CallbackRejects(newContext)
           THEN /\ flushNow
                /\ listener' = listener
                /\ last' = report("dropped")
           ELSE IF listener.phase # "mounted"
           THEN /\ flushNow
                /\ listener' = listener
                /\ last' = report("unmounted")
           ELSE IF flushNow
           THEN /\ listener' = [listener EXCEPT !.state = ApplyAll(@, queue), !.pending = <<>>,
                                                !.tracked = counted]
                /\ last' = report("recorded")
           ELSE /\ Len(listener.pending) < MaxPending
                /\ listener' = [listener EXCEPT !.pending = queue, !.tracked = counted]
                /\ last' = report("queued")
    /\ UNCHANGED registry

\* React renders the updates it held back
Flush ==
    /\ listener.phase = "mounted"
    /\ listener.pending # <<>>
    /\ listener' = [listener EXCEPT !.state = ApplyAll(@, listener.pending), !.pending = <<>>]
    /\ last' = [op |-> "flush", who |-> "Listener"]
    /\ UNCHANGED <<registry, now>>

\* a clear that forgets the stored context as well
ClearHistoryForgettingContext ==
    /\ listener.phase = "mounted"
    /\ listener' = [listener EXCEPT
            !.state = [ApplyAll(@, listener.pending) EXCEPT !.changeHistory = <<>>,
                                                            !.currentContext = Null],
            !.pending = <<>>, !.tracked = 0]
    /\ last' = [op |-> "clear", who |-> "Listener"]
    /\ UNCHANGED <<registry, now>>

\* handleClearHistory
ClearHistory ==
    /\ listener.phase = "mounted"
    /\ listener' = [listener EXCEPT
            !.state = [ApplyAll(@, listener.pending) EXCEPT !.changeHistory = <<>>],
            !.pending = <<>>, !.tracked = 0]
    /\ last' = [op |-> "clear", who |-> "Listener"]
    /\ UNCHANGED <<registry, now>>

\* componentWillUnmount
Unmount(unsubThrows) ==
    /\ listener.phase = "mounted"
    /\ unsubThrows => listener.pageContextUnsubscribe # NoHandle
    /\ LET c == Cleanup(listener.pageContextUnsubscribe, registry, unsubThrows)
       IN  /\ listener' = [listener EXCEPT !.phase = "unmounted", !.pending = <<>>,
                                           !.pageContextUnsubscribe = c.handle,
                                           !.tracked = 0]
           /\ registry' = c.reg
    /\ last' = [op |-> "unmount", who |-> "Listener", unsubThrew |-> unsubThrows]
    /\ UNCHANGED now

----------------------------------------------------------------------------
(* PluginPageContextService *)

\* functions the wrapper's callers register as listeners
ListenerFns == {"f1", "f2"}

ServiceInitialState ==
    [phase |-> "new",
     serviceBridge |-> "undefined",
     isConnected |-> FALSE,
     listeners |-> {},
     currentContext |-> Null,
     operationCount |-> 0]

\* createPageContextService(pluginId, moduleId)
CreatePageContextService ==
    /\ service.phase = "new"
    /\ service' = [service EXCEPT !.phase = "live"]
    /\ last' = [op |-> "create", who |-> "Service"]
    /\ UNCHANGED <<registry, handles, now>>

\* a validator that accepts whatever the bridge returns
ValidatePageContextLenient(context) == TRUE

\* PageContextValidator.validatePageContext
ValidatePageContext(context) ==
    /\ Truthy(context)
    /\ \A field \in {"pageId", "pageName", "pageRoute"} : TypeOf(context[field]) = "string"

\* setServiceBridge(bridge); bridge "undefined" stands for null.  A bridge
\* without getCurrentPageContext makes the call throw a TypeError.
SetServiceBridge(bridge, retrieved) ==
    /\ service.phase = "live"
    /\ IF bridge = "undefined"
       THEN /\ retrieved = Null
            /\ service' = service
            /\ last' = [op |-> "setServiceBridge", who |-> "Service", bridge |-> bridge,
                        raised |-> "INVALID_BRIDGE", retrieved |-> retrieved]
       ELSE LET answer == IF HasGetCurrentPageContext(bridge) THEN retrieved ELSE Threw
            IN  /\ ~HasGetCurrentPageContext(bridge) => retrieved = Threw
                /\ service' = [service EXCEPT
                        !.serviceBridge = bridge,
                        !.isConnected = TRUE,
                        !.currentContext = IF answer = Threw THEN Null ELSE answer]
                /\ last' = [op |-> "setServiceBridge", who |-> "Service", bridge |-> bridge,
                            raised |-> "", retrieved |-> answer]
    /\ UNCHANGED <<registry, handles, now>>

\* an availability test that lets every call through
IsServiceAvailableAlways == TRUE

IsServiceAvailable == service.serviceBridge # "undefined" /\ service.isConnected

\* a successful call that counts the operation and keeps the old cache
StoreRetrievedKeepingCache(st, retrieved) == [st EXCEPT !.operationCount = @ + 1]

\* the success path of getCurrentPageContext: cache the value, count the operation
StoreRetrieved(st, retrieved) ==
    [st EXCEPT !.currentContext = retrieved, !.operationCount = @ + 1]

\* getCurrentPageContext()
GetCurrentPageContext(retrieved) ==
    /\ service.phase = "live"
    /\ LET b == service.serviceBridge
           report(raised) == [op |-> "getCurrentPageContext", who |-> "Service",
                              raised |-> raised, retrieved |-> retrieved]
       IN  IF ~IsServiceAvailable
           THEN /\ retrieved = Null
                /\ service' = service
                /\ last' = report("SERVICE_UNAVAILABLE")
           ELSE IF ~HasGetCurrentPageContext(b) \/ retrieved = Threw
           THEN /\ retrieved = Threw
                /\ service' = service
                /\ last' = report("GET_CONTEXT_FAILED")
           ELSE IF Truthy(retrieved) /\ ~ValidatePageContext(retrieved)
           THEN /\ service' = service
                /\ last' = report("INVALID_CONTEXT")
           ELSE /\ service.operationCount < MaxOps
                /\ service' = StoreRetrieved(service, retrieved)
                /\ last' = report("")
    /\ UNCHANGED <<registry, handles, now>>

\* onPageContextChange(listener): one callback is registered with the bridge
\* for every call, and an unsubscribe function is returned to the caller
OnPageContextChange(fn, subThrows) ==
    /\ service.phase = "live"
    /\ LET b == service.serviceBridge
           free == FreeIds(registry, NoHandle)
           id == CHOOSE i \in free : \A j \in free : i <= j
           report(raised) == [op |-> "onPageContextChange", who |-> "Service",
                              listener |-> fn, raised |-> raised]
       IN  IF ~IsServiceAvailable
           THEN /\ ~subThrows
                /\ UNCHANGED <<service, registry, handles>>
                /\ last' = report("SERVICE_UNAVAILABLE")
           ELSE IF ~HasOnPageContextChange(b) \/ subThrows
           THEN /\ ~HasOnPageContextChange(b) => subThrows
                /\ service' = [service EXCEPT !.listeners = @ \cup {fn}]
                /\ UNCHANGED <<registry, handles>>
                /\ last' = report("ADD_LISTENER_FAILED")
           ELSE /\ free # {}
                /\ service' = [service EXCEPT !.listeners = @ \cup {fn}]
                /\ registry' = registry \cup {Subscription(id, b, "Service", fn)}
                /\ handles' = handles \cup {[id |-> id, listener |-> fn, called |-> FALSE]}
                /\ last' = report("")
    /\ UNCHANGED now

\* a caller invokes an unsubscribe function the wrapper returned: it deletes
\* the listener from the set and calls the bridge's unsubscribe function, on
\* every call (bridgeCalls)
CallUnsubscribe(h, unsubThrows) ==
    /\ h \in handles
    /\ service' = [service EXCEPT !.listeners = @ \ {h.listener}]
    /\ registry' = IF unsubThrows THEN BridgeUnsubscribeThrows(registry, h.id)
                   ELSE BridgeUnsubscribe(registry, h.id)
    /\ handles' = (handles \ {h}) \cup {[h EXCEPT !.called = TRUE]}
    /\ last' = [op |-> "unsubscribe", who |-> "Service", handle |-> h,
                bridgeCalls |-> 1,
                raised |-> IF unsubThrows THEN "bridge error" ELSE ""]
    /\ UNCHANGED now

\* a forwarding callback that calls the listener before it updates the cache
ForwardingCallbackListenerFirst(st, fn, context) ==
    [service |-> [st EXCEPT !.currentContext = context],
     call |-> [listener |-> fn, argument |-> context, cached |-> st.currentContext]]

\* the callback onPageContextChange registers with the bridge: it caches the
\* context, then calls the listener; cached is the cache the listener finds
ForwardingCallback(st, fn, context) ==
    LET updated == [st EXCEPT !.currentContext = context]
    IN  [service |-> updated,
         call |-> [listener |-> fn, argument |-> context,
                   cached |-> updated.currentContext]]

\* a bridge invokes the forwarding callback registered under id; the callback
\* has no try/catch, so what the listener throws leaves it towards the bridge
\* (raised)
ServiceNotify(id, context, listenerThrows) ==
    /\ \E s \in registry :
        /\ s.id = id /\ s.owner = "Service"
        /\ LET run == ForwardingCallback(service, s.listener, context)
           IN  /\ service' = run.service
               /\ last' = [op |-> "notify", who |-> "Service", id |-> id,
                           payload |-> context,
                           invoked |-> <<s.listener>>,
                           calls |-> <<run.call>>,
                           raised |-> IF listenerThrows THEN "listener error" ELSE ""]
    /\ UNCHANGED <<registry, handles, now>>

RECURSIVE InRegistrationOrder(_)
\* the callbacks of a bridge in the order they were registered (the wrapper's
\* callbacks get increasing ids)
InRegistrationOrder(callbacks) ==
    IF callbacks = {} THEN <<>>
    ELSE LET first == CHOOSE s \in callbacks : \A t \in callbacks : s.id <= t.id
         IN  <<first>> \o InRegistrationOrder(callbacks \ {first})

RECURSIVE Dispatch(_, _, _)
\* the bridge runs the forwarding callbacks of queue one after the other
Dispatch(st, queue, context) ==
    IF queue = <<>> THEN [service |-> st, calls |-> <<>>]
    ELSE LET run == ForwardingCallback(st, Head(queue).listener, context)
             rest == Dispatch(run.service, Tail(queue), context)
         IN  [service |-> rest.service, calls |-> <<run.call>> \o rest.calls]

\* bridge b announces a page change: it invokes every callback registered
\* with it, in registration order; no listener throws
BridgeEmit(b, context) ==
    /\ service.phase = "live"
    /\ LET callbacks == {s \in registry : s.owner = "Service" /\ s.bridge = b}
           run == Dispatch(service, InRegistrationOrder(callbacks), context)
       IN  /\ callbacks # {}
           /\ service' = run.service
           /\ last' = [op |-> "emit", who |-> "Service", bridge |-> b,
                       payload |-> context, calls |-> run.calls]
    /\ UNCHANGED <<registry, handles, now>>

\* removeAllListeners()
RemoveAllListeners ==
    /\ service.phase = "live"
    /\ service' = [service EXCEPT !.listeners = {}]
    /\ last' = [op |-> "removeAllListeners", who |-> "Service"]
    /\ UNCHANGED <<registry, handles, now>>

\* getServiceStats().activeListeners
ActiveListeners == Cardinality(service.listeners)

----------------------------------------------------------------------------
(* PageContextDisplay *)

DisplayInitialState ==
    [pageId |-> "", pageName |-> "", pageRoute |-> "",
     isServiceConnected |-> FALSE, error |-> ""]

\* `value || ''`
OrEmpty(v) == IF TruthyValue(v) THEN v ELSE ""

\* the page fields a setState copies out of a context object
ShowContext(st, context) ==
    [st EXCEPT !.pageId = OrEmpty(context.pageId),
               !.pageName = OrEmpty(context.pageName),
               !.pageRoute = OrEmpty(context.pageRoute)]

MsgRetrieveThrew == "Failed to get current page context: bridge error"
MsgNotConnected == "Cannot refresh - PageContext Service not connected"
MsgNoLonger == "PageContext Service no longer available"
MsgRefreshThrew == "bridge error"

\* the catch block of initializePageContextService
DisplayInitFailed(st, errorMessage) ==
    [st EXCEPT !.isServiceConnected = FALSE, !.error = errorMessage]

\* initializePageContextService with props.services = services
InitializePageContextService(op, services, unsubThrows, retrieved, subThrows) ==
    LET c == Cleanup(display.pageContextUnsubscribe, registry, unsubThrows)
        b == PageContextOf(services)
        free == FreeIds(c.reg, c.handle)
        id == CHOOSE i \in free : \A j \in free : i <= j
        common == [display EXCEPT !.services = services, !.phase = "mounted",
                                  !.pageContextUnsubscribe = c.handle]
        report(outcome) == [op |-> op, who |-> "Display", services |-> services,
                            outcome |-> outcome, retrieved |-> retrieved,
                            unsubThrew |-> unsubThrows, subThrew |-> subThrows,
                            from |-> display.services]
        fail(msg) ==
            /\ ~subThrows
            /\ display' = [common EXCEPT !.state = DisplayInitFailed(@, msg)]
            /\ registry' = c.reg
            /\ last' = report("failed")
    IN  /\ unsubThrows => display.pageContextUnsubscribe # NoHandle
        /\ CASE services = NoServices -> retrieved = Null /\ fail(MsgNoServices)
             [] services = NoPageContext ->
                    /\ retrieved = Null /\ ~subThrows
                    /\ display' = [common EXCEPT !.state.isServiceConnected = FALSE,
                                                 !.state.error = ""]
                    /\ registry' = c.reg
                    /\ last' = report("nobridge")
             [] ~HasGetCurrentPageContext(b) -> retrieved = Null /\ fail(MsgNoGet)
             [] HasGetCurrentPageContext(b) /\ ~HasOnPageContextChange(b) ->
                    retrieved = Null /\ fail(MsgNoSubscribe)
             [] OTHER ->
                    IF retrieved = Threw
                    THEN fail(MsgRetrieveThrew)
                    ELSE IF subThrows
                    THEN /\ display' = [common EXCEPT !.state = DisplayInitFailed(@, MsgSubscribeThrew)]
                         /\ registry' = c.reg
                         /\ last' = report("failed")
                    ELSE /\ free # {}
                         /\ display' = [common EXCEPT
                                 !.state = [(IF Truthy(retrieved) THEN ShowContext(@, retrieved) ELSE @)
                                                EXCEPT !.isServiceConnected = TRUE, !.error = ""],
                                 !.pageContextUnsubscribe = id]
                         /\ registry' = c.reg \cup {Subscription(id, b, "Display", "self")}
                         /\ last' = report("connected")
        /\ UNCHANGED now

\* constructor + componentDidMount
DisplayMount(services, unsubThrows, retrieved, subThrows) ==
    /\ display.phase = "new"
    /\ InitializePageContextService("mount", services, unsubThrows, retrieved, subThrows)

\* componentDidUpdate
DisplayUpdateProps(services, unsubThrows, retrieved, subThrows) ==
    /\ display.phase = "mounted"
    /\ services # display.services
    /\ IF PageContextOf(display.services) # PageContextOf(services)
       THEN InitializePageContextService("update", services, unsubThrows, retrieved, subThrows)
       ELSE /\ ~unsubThrows /\ retrieved = Null /\ ~subThrows
            /\ display' = [display EXCEPT !.services = services]
            /\ last' = [op |-> "rerender", who |-> "Display", services |-> services]
            /\ UNCHANGED <<registry, now>>

\* a bridge invokes the callback the display registered under id
DisplayNotify(id, context) ==
    /\ \E s \in registry : s.id = id /\ s.owner = "Display"
    /\ IF ~Truthy(context)
       THEN /\ display' = display
            /\ last' = [op |-> "notify", who |-> "Display", id |-> id,
                        payload |-> context, outcome |-> "dropped"]
       ELSE IF display.phase # "mounted"
       THEN /\ display' = display
            /\ last' = [op |-> "notify", who |-> "Display", id |-> id,
                        payload |-> context, outcome |-> "unmounted"]
       ELSE /\ display' = [display EXCEPT !.state = ShowContext(@, context)]
            /\ last' = [op |-> "notify", who |-> "Display", id |-> id,
                        payload |-> context, outcome |-> "shown"]
    /\ UNCHANGED <<registry, now>>

\* handleRefresh
HandleRefresh(retrieved) ==
    /\ display.phase = "mounted"
    /\ LET report(outcome) == [op |-> "refresh", who |-> "Display",
                               retrieved |-> retrieved, outcome |-> outcome]
       IN  IF ~display.state.isServiceConnected
           THEN /\ retrieved = Null
                /\ display' = [display EXCEPT !.state.error = MsgNotConnected]
                /\ last' = report("notconnected")
           ELSE IF PageContextOf(display.services) = "undefined"
           THEN /\ retrieved = Null
                /\ display' = [display EXCEPT !.state.error = MsgNoLonger]
                /\ last' = report("unavailable")
           ELSE IF retrieved = Threw
           THEN /\ display' = [display EXCEPT !.state.error = MsgRefreshThrew]
                /\ last' = report("failed")
           ELSE /\ display' = [display EXCEPT
                        !.state = [(IF Truthy(retrieved) THEN ShowContext(@, retrieved) ELSE @)
                                        EXCEPT !.error = ""]]
                /\ last' = report("refreshed")
    /\ UNCHANGED <<registry, now>>

\* componentWillUnmount
DisplayUnmount(unsubThrows) ==
    /\ display.phase = "mounted"
    /\ unsubThrows => display.pageContextUnsubscribe # NoHandle
    /\ LET c == Cleanup(display.pageContextUnsubscribe, registry, unsubThrows)
       IN  /\ display' = [display EXCEPT !.phase = "unmounted",
                                          !.pageContextUnsubscribe = c.handle]
           /\ registry' = c.reg
    /\ last' = [op |-> "unmount", who |-> "Display", unsubThrew |-> unsubThrows]
    /\ UNCHANGED now

----------------------------------------------------------------------------
(* ServiceExamplePageContext, the main component of the plugin *)

\* theme services the host may inject as services.theme; tBare has
\* getCurrentTheme only
ThemeServices == {"t1", "t2", "tBare"}

HasAddThemeChangeListener(t) == t \in {"t1", "t2"}
HasRemoveThemeChangeListener(t) == t \in {"t1", "t2"}

\* props.services of the main component
PluginServicesValues == {NoServices, NoPageContext} \cup ThemeServices

\* props.services?.theme
ThemeOf(services) == IF services \in ThemeServices THEN services ELSE "undefined"

Themes == {"light", "dark"}

\* what a call of the theme service may throw: nothing, an Error with a
\* message, an Error without one, or a value that is no Error
NotThrown == [kind |-> "none", message |-> ""]
ErrorWith(message) == [kind |-> "Error", message |-> message]
NonError == [kind |-> "value", message |-> ""]
ThemeThrows == {NotThrown, ErrorWith("theme error"), ErrorWith(""), NonError}

\* error instanceof Error ? error.message : 'Plugin initialization failed'
FailureText(thrown) ==
    IF thrown.kind = "Error" THEN thrown.message ELSE "Plugin initialization failed"

NoThemeListener == 0

PluginInitialState == [isInitializing |-> TRUE, error |-> "", currentTheme |-> "light"]

\* a setState that is applied whether or not the component is still mounted
PluginSetStateRegardless(p, st) == [p EXCEPT !.state = st]

\* this.setState on the main component: React drops the update of a component
\* that has been unmounted
PluginSetState(p, st) ==
    IF p.phase = "unmounted" THEN p ELSE [p EXCEPT !.state = st]

\* the catch block of initializePlugin
PluginInitFailed(p, thrown) ==
    PluginSetState(p, [p.state EXCEPT !.isInitializing = FALSE,
                                      !.error = FailureText(thrown)])

\* initializePlugin up to its await, run on component p with the theme
\* listeners tl registered so far.  The host's answers: got (what
\* getCurrentTheme returns), getThrown and addThrown (what getCurrentTheme and
\* addThemeChangeListener throw).  A run that reaches the await leaves one
\* more delay pending.
InitializePlugin(p, tl, got, getThrown, addThrown) ==
    LET t == ThemeOf(p.services)
        id == p.closures + 1
        themed == [PluginSetState(p, [p.state EXCEPT !.currentTheme = got])
                        EXCEPT !.themeChangeListener = id, !.closures = id]
        awaiting(q, listeners) ==
            [plugin |-> [q EXCEPT !.delays = @ + 1], listeners |-> listeners,
             outcome |-> "awaiting"]
        failed(q, thrown) ==
            [plugin |-> PluginInitFailed(q, thrown), listeners |-> tl,
             outcome |-> "failed"]
    IN  IF t = "undefined" THEN awaiting(p, tl)
        ELSE IF getThrown # NotThrown THEN failed(p, getThrown)
        ELSE IF ~HasAddThemeChangeListener(t) THEN awaiting(themed, tl)
        ELSE IF addThrown # NotThrown THEN failed(themed, addThrown)
        ELSE awaiting(themed, tl \cup {[service |-> t, id |-> id]})

\* the answers of the host that the run does not ask for keep their defaults
AnswersAsked(services, got, getThrown, addThrown) ==
    LET t == ThemeOf(services)
    IN  /\ (t = "undefined" \/ getThrown # NotThrown) => got = "light"
        /\ t = "undefined" => getThrown = NotThrown
        /\ (t = "undefined" \/ getThrown # NotThrown \/ ~HasAddThemeChangeListener(t)) =>
                addThrown = NotThrown

\* constructor + componentDidMount
PluginMount(services, got, getThrown, addThrown) ==
    /\ plugin.phase = "new"
    /\ AnswersAsked(services, got, getThrown, addThrown)
    /\ LET run == InitializePlugin([plugin EXCEPT !.phase = "mounted", !.services = services],
                                   themeListeners, got, getThrown, addThrown)
       IN  /\ plugin' = run.plugin
           /\ themeListeners' = run.listeners
           /\ last' = [op |-> "mount", who |-> "Plugin", outcome |-> run.outcome,
                       thrown |-> IF getThrown # NotThrown THEN getThrown ELSE addThrown]

\* the delay of initializePlugin is over: the rest of the function runs
DelayElapsed ==
    /\ plugin.delays > 0
    /\ plugin' = PluginSetState([plugin EXCEPT !.delays = @ - 1],
                                [plugin.state EXCEPT !.isInitializing = FALSE, !.error = ""])
    /\ last' = [op |-> "elapsed", who |-> "Plugin", phase |-> plugin.phase]
    /\ UNCHANGED themeListeners

\* handleRetry, the click handler of the button the error state renders
HandleRetry(got, getThrown, addThrown) ==
    /\ plugin.phase = "mounted"
    /\ ~plugin.state.isInitializing /\ plugin.state.error # ""
    /\ plugin.closures < MaxClosures
    /\ AnswersAsked(plugin.services, got, getThrown, addThrown)
    /\ LET again == PluginSetState(plugin, [plugin.state EXCEPT !.isInitializing = TRUE,
                                                                !.error = ""])
           run == InitializePlugin(again, themeListeners, got, getThrown, addThrown)
       IN  /\ plugin' = run.plugin
           /\ themeListeners' = run.listeners
           /\ last' = [op |-> "retry", who |-> "Plugin", outcome |-> run.outcome,
                       thrown |-> IF getThrown # NotThrown THEN getThrown ELSE addThrown]

\* a theme service invokes a callback registered with it
ThemeChanged(l, theme) ==
    /\ l \in themeListeners
    /\ plugin' = PluginSetState(plugin, [plugin.state EXCEPT !.currentTheme = theme])
    /\ last' = [op |-> "theme", who |-> "Plugin", phase |-> plugin.phase, theme |-> theme]
    /\ UNCHANGED themeListeners

\* the host re-renders the main component with new props; the component has
\* no componentDidUpdate
PluginUpdateProps(services) ==
    /\ plugin.phase = "mounted"
    /\ services # plugin.services
    /\ plugin' = [plugin EXCEPT !.services = services]
    /\ last' = [op |-> "rerender", who |-> "Plugin", services |-> services]
    /\ UNCHANGED themeListeners

\* cleanup(): the listener is removed from the theme service of the current
\* props, when there is one that can remove listeners
PluginCleanup(p, tl) ==
    LET t == ThemeOf(p.services)
    IN  IF p.themeChangeListener # NoThemeListener
           /\ t # "undefined" /\ HasRemoveThemeChangeListener(t)
        THEN [plugin |-> [p EXCEPT !.themeChangeListener = NoThemeListener],
              listeners |-> tl \ {[service |-> t, id |-> p.themeChangeListener]}]
        ELSE [plugin |-> p, listeners |-> tl]

\* componentWillUnmount
PluginUnmount ==
    /\ plugin.phase = "mounted"
    /\ LET c == PluginCleanup(plugin, themeListeners)
       IN  /\ plugin' = [c.plugin EXCEPT !.phase = "unmounted"]
           /\ themeListeners' = c.listeners
    /\ last' = [op |-> "unmount", who |-> "Plugin"]

----------------------------------------------------------------------------
(* Specifications *)

Init ==
    /\ listener = [phase |-> "new", services |-> NoServices,
                   state |-> ListenerInitialState,
                   pageContextUnsubscribe |-> NoHandle, pending |-> <<>>,
                   tracked |-> 0]
    /\ registry = {}
    /\ service = ServiceInitialState
    /\ handles = {}
    /\ display = [phase |-> "new", services |-> NoServices,
                  state |-> DisplayInitialState,
                  pageContextUnsubscribe |-> NoHandle]
    /\ plugin = [phase |-> "new", services |-> NoServices,
                 state |-> PluginInitialState,
                 themeChangeListener |-> NoThemeListener,
                 closures |-> 0, delays |-> 0]
    /\ themeListeners = {}
    /\ now = 0
    /\ last = [op |-> "init", who |-> "none"]

\* the host instantiates one module of the plugin per scenario
Untouched(who) ==
    /\ who # "Listener" => listener.phase = "new"
    /\ who # "Service" => service.phase = "new"
    /\ who # "Display" => display.phase = "new"
    /\ who # "Plugin" => plugin.phase = "new"

ListenerOnly ==
    Untouched("Listener") /\ UNCHANGED <<service, handles, display, plugin, themeListeners>>

ServiceOnly ==
    Untouched("Service") /\ UNCHANGED <<listener, display, plugin, themeListeners>>

DisplayOnly ==
    Untouched("Display") /\ UNCHANGED <<listener, service, handles, plugin, themeListeners>>

PluginOnly ==
    Untouched("Plugin") /\ UNCHANGED <<listener, registry, service, handles, display, now>>

\* bridges handed to the wrapper; "undefined" stands for null
ServiceBridges == {"undefined", "b1", "b2", "noneOf"}

\* what the bridge may answer to the wrapper's getCurrentPageContext()
ServiceRetrievals == Retrievals \cup {EmptyIdCtx, NumberNameCtx}

\* payloads the bridges deliver to the wrapper's and the display's callbacks
ShortPayloads == {CtxA, EmptyIdCtx, Null}

\* what a bridge may hand to the callback from inside onPageContextChange
EarlyDeliveries == {NoDelivery, Ctx("y", "Home", "/")}

\* attach scenarios: every kind of props and bridge for each module, every
\* notification rendered at once, one listener function on the wrapper
Next ==
    \/ \E sv \in ServicesValues, ut \in BOOLEAN, r \in Retrievals, st \in BOOLEAN :
            ListenerOnly /\ Mount(sv, ut, r, st, NoDelivery, MaxClock)
    \/ \E sv \in ServicesValues, ut \in BOOLEAN, r \in Retrievals, st \in BOOLEAN :
            ListenerOnly /\ UpdateProps(sv, ut, r, st, NoDelivery, MaxClock)
    \/ ListenerOnly /\ ClearHistory
    \/ \E ut \in BOOLEAN : ListenerOnly /\ Unmount(ut)
    \/ \E id \in SubIds, p \in FewPayloads : ListenerOnly /\ Notify(id, p, TRUE, MaxClock)
    \/ ServiceOnly /\ CreatePageContextService
    \/ \E b \in ServiceBridges, r \in Retrievals : ServiceOnly /\ SetServiceBridge(b, r)
    \/ \E r \in ServiceRetrievals : ServiceOnly /\ GetCurrentPageContext(r)
    \/ \E st \in BOOLEAN : ServiceOnly /\ OnPageContextChange("f1", st)
    \/ \E h \in handles : ServiceOnly /\ CallUnsubscribe(h, FALSE)
    \/ \E id \in SubIds, p \in FewPayloads : ServiceOnly /\ ServiceNotify(id, p, FALSE)
    \/ \E sv \in ServicesValues, ut \in BOOLEAN, r \in Retrievals, st \in BOOLEAN :
            DisplayOnly /\ DisplayMount(sv, ut, r, st)
    \/ \E sv \in ServicesValues, ut \in BOOLEAN, r \in Retrievals, st \in BOOLEAN :
            DisplayOnly /\ DisplayUpdateProps(sv, ut, r, st)
    \/ \E id \in SubIds, p \in ShortPayloads : DisplayOnly /\ DisplayNotify(id, p)
    \/ \E r \in Retrievals : DisplayOnly /\ HandleRefresh(r)
    \/ \E ut \in BOOLEAN : DisplayOnly /\ DisplayUnmount(ut)

Spec == Init /\ [][Next]_vars

\* payload scenarios: the full payload domain, React batching the updates
NextPayload ==
    \/ \E sv \in PlainServices, r \in Retrievals, e \in EarlyDeliveries :
            ListenerOnly /\ Mount(sv, FALSE, r, FALSE, e, MaxPayloadClock)
    \/ \E sv \in PlainServices, r \in Retrievals, e \in EarlyDeliveries :
            ListenerOnly /\ UpdateProps(sv, FALSE, r, FALSE, e, MaxPayloadClock)
    \/ ListenerOnly /\ ClearHistory
    \/ ListenerOnly /\ Unmount(FALSE)
    \/ \E id \in SubIds, p \in AllPayloads, f \in BOOLEAN :
            ListenerOnly /\ Notify(id, p, f, MaxPayloadClock)
    \/ ListenerOnly /\ Flush

SpecPayload == Init /\ [][NextPayload]_vars

\* long-history scenarios: enough notifications to fill the history
NextHistory ==
    \/ \E sv \in PlainServices, r \in Retrievals :
            ListenerOnly /\ Mount(sv, FALSE, r, FALSE, NoDelivery, MaxLongClock)
    \/ \E sv \in PlainServices, r \in Retrievals :
            ListenerOnly /\ UpdateProps(sv, FALSE, r, FALSE, NoDelivery, MaxLongClock)
    \/ ListenerOnly /\ ClearHistory
    \/ ListenerOnly /\ Unmount(FALSE)
    \/ \E id \in SubIds, p \in OnePayload, f \in BOOLEAN :
            ListenerOnly /\ Notify(id, p, f, MaxLongClock)
    \/ ListenerOnly /\ Flush

SpecHistory == Init /\ [][NextHistory]_vars

\* wrapper scenarios: every operation of PluginPageContextService, one capable
\* bridge
NextService ==
    \/ ServiceOnly /\ CreatePageContextService
    \/ \E b \in ServiceBridges \ {"b2"}, r \in Retrievals :
            ServiceOnly /\ SetServiceBridge(b, r)
    \/ \E r \in ServiceRetrievals : ServiceOnly /\ GetCurrentPageContext(r)
    \/ \E fn \in ListenerFns, st \in BOOLEAN : ServiceOnly /\ OnPageContextChange(fn, st)
    \/ \E h \in handles, ut \in BOOLEAN : ServiceOnly /\ CallUnsubscribe(h, ut)
    \/ \E id \in SubIds, p \in ShortPayloads, lt \in BOOLEAN :
            ServiceOnly /\ ServiceNotify(id, p, lt)
    \/ \E p \in ShortPayloads : ServiceOnly /\ BridgeEmit("b1", p)
    \/ ServiceOnly /\ RemoveAllListeners

SpecService == Init /\ [][NextService]_vars

\* main-component scenarios: every kind of props and theme service, failing
\* theme calls, retries, theme changes and the initialization delay
NextPlugin ==
    \/ \E sv \in PluginServicesValues, g \in Themes, gt \in ThemeThrows, at \in ThemeThrows :
            PluginOnly /\ PluginMount(sv, g, gt, at)
    \/ PluginOnly /\ DelayElapsed
    \/ \E g \in Themes, gt \in ThemeThrows, at \in ThemeThrows :
            PluginOnly /\ HandleRetry(g, gt, at)
    \/ \E l \in themeListeners, th \in Themes : PluginOnly /\ ThemeChanged(l, th)
    \/ \E sv \in PluginServicesValues : PluginOnly /\ PluginUpdateProps(sv)
    \/ PluginOnly /\ PluginUnmount

SpecPlugin == Init /\ [][NextPlugin]_vars

\* the timer of the initialization delay fires
SpecPluginFair == SpecPlugin /\ WF_vars(PluginOnly /\ DelayElapsed)

----------------------------------------------------------------------------
(* Claims *)

\* the cap of ChangeHistory
HistoryCap == 10

History == listener.state.changeHistory

NewestFirst(h) == \A i \in 1..(Len(h) - 1) : h[i].timestamp > h[i + 1].timestamp

\* the number of change records the step just taken inserted into the history
Inserted ==
    IF last'.op = "notify" /\ last'.who = "Listener" /\ last'.outcome = "recorded"
    THEN Len(listener.pending) + 1
    ELSE IF last'.op = "flush" THEN Len(listener.pending)
    ELSE 0

\* C1: ChangeHistory never holds more than 10 entries and is ordered newest
\* first, and a step that inserts k records keeps, below the k new ones, the
\* newest old entries in their order and drops only the oldest ones beyond
\* the cap.
C1_HistoryCapped ==
    [][LET old == History
           new == listener'.state.changeHistory
           k == Inserted
       IN  /\ Len(new) <= HistoryCap
           /\ NewestFirst(new)
           /\ k > 0 =>
                /\ Len(new) = Min(Len(old) + k, HistoryCap)
                /\ SubSeq(new, k + 1, Len(new)) = SubSeq(old, 1, Len(new) - k)
                /\ \A i \in 1..k : \A j \in 1..Len(old) :
                        new[i].timestamp > old[j].timestamp]_vars

\* C1 witness: fifteen notifications went through one subscription attached
\* with no initial context; the history holds events 6 to 15, newest first.
C1_Witness ==
    /\ last.op = "notify" /\ last.outcome = "recorded"
    /\ now = 15
    /\ Len(History) = HistoryCap
    /\ \A i \in 1..HistoryCap : History[i].timestamp = 16 - i

\* the classification rule of the data model: pageId, then pageRoute, then pageName
ReferenceKind(previous, current) ==
    IF ~Truthy(previous) THEN "InitialLoad"
    ELSE IF previous.pageId # current.pageId THEN "PageChange"
    ELSE IF previous.pageRoute # current.pageRoute THEN "RouteChange"
    ELSE IF previous.pageName # current.pageName THEN "NameChange"
    ELSE "Update"

\* the ChangeKind a label of the component stands for
KindOf(changeType) ==
    CASE changeType = "Initial Load" -> "InitialLoad"
      [] changeType = "Page Navigation" -> "PageChange"
      [] changeType = "Route Change" -> "RouteChange"
      [] changeType = "Page Name Change" -> "NameChange"
      [] OTHER -> "Update"

\* the change records the component holds, rendered or still queued
Records == {History[i] : i \in DOMAIN History}
               \cup {listener.pending[i] : i \in DOMAIN listener.pending}

\* C2: the kind recorded for every change equals the reference classification
\* of its (previous, current) pair: InitialLoad, else PageChange on pageId,
\* else RouteChange on pageRoute, else NameChange on pageName, else Update.
C2_KindIsReference ==
    \A e \in Records : KindOf(e.changeType) = ReferenceKind(e.previousContext, e.newContext)

\* C3: a notification whose payload is not a well-formed PageContext is
\* dropped: no change record is made for it and it does not become the
\* stored current context.
C3_MalformedDropped ==
    (last.op = "notify" /\ last.who = "Listener" /\ ~WellFormed(last.payload)) =>
        /\ \A e \in Records : e.timestamp # now
        /\ listener.state.currentContext # last.payload

\* the step just taken ran the initialisation of the given component
Attached(report, who) == report.who = who /\ report.op \in {"mount", "update"}

\* bridges offering both methods
CapableBridges == {b \in Bridges : HasOnPageContextChange(b) /\ HasGetCurrentPageContext(b)}

\* C4: initialising PageContextListener or PageContextDisplay with a services
\* object that carries no pageContext never fails: the component ends not
\* connected, not listening, with an empty error and (the listener) an empty
\* history; the held unsubscribe function is called, its callback leaving
\* the bridge unless that call throws.  The wrapper's setServiceBridge(null)
\* raises INVALID_BRIDGE and changes nothing.
C4_NoBridgeIsNotAnError ==
    [][/\ (Attached(last', "Listener") /\ last'.services = NoPageContext) =>
            /\ ~listener'.state.isServiceConnected
            /\ ~listener'.state.isListening
            /\ listener'.state.error = ""
            /\ listener'.state.changeHistory = <<>>
            /\ ~last'.unsubThrew =>
                    /\ listener'.pageContextUnsubscribe = NoHandle
                    /\ \A s \in registry' : s.id # listener.pageContextUnsubscribe
            /\ last'.unsubThrew =>
                    \E s \in registry' : s.id = listener.pageContextUnsubscribe
       /\ (Attached(last', "Display") /\ last'.services = NoPageContext) =>
            /\ ~display'.state.isServiceConnected
            /\ display'.state.error = ""
            /\ ~last'.unsubThrew =>
                    /\ display'.pageContextUnsubscribe = NoHandle
                    /\ \A s \in registry' : s.id # display.pageContextUnsubscribe
       /\ (last'.who = "Service" /\ last'.op = "setServiceBridge"
                /\ last'.bridge = "undefined") =>
            /\ last'.raised = "INVALID_BRIDGE"
            /\ service' = service
            /\ registry' = registry]_vars

\* C4 witness: a listener that held a subscription and a history is
\* re-rendered with a services object without pageContext.
C4_Witness ==
    /\ Attached(last, "Listener") /\ last.op = "update"
    /\ last.services = NoPageContext
    /\ last.from \in CapableBridges
    /\ last.hadHistory /\ ~last.unsubThrew
    /\ History = <<>>
    /\ registry = {}

\* C4 as stated: no attach without a bridge raises, and each ends Disconnected
\* with an empty history.
C4_AbsentNeverRaises ==
    /\ (Attached(last, "Listener") /\ last.services = NoPageContext) =>
            /\ ~listener.state.isServiceConnected
            /\ listener.state.error = ""
            /\ History = <<>>
    /\ (last.who = "Service" /\ last.op = "setServiceBridge" /\ last.bridge = "undefined") =>
            /\ last.raised = ""
            /\ ~service.isConnected

\* C5: initialising a component with a bridge that lacks one of the two
\* methods fails with an error that names a method the bridge really lacks,
\* registers no callback with that bridge and leaves the component not
\* connected and not listening; a bridge lacking only onPageContextChange is
\* reported as missing onPageContextChange.
C5_MissingCapabilityNamed ==
    /\ (Attached(last, "Listener") /\ last.services \in Bridges \ CapableBridges) =>
            /\ listener.state.error \in {MsgNoSubscribe, MsgNoGet}
            /\ listener.state.error = MsgNoSubscribe => ~HasOnPageContextChange(last.services)
            /\ listener.state.error = MsgNoGet => ~HasGetCurrentPageContext(last.services)
            /\ last.services = "noSub" => listener.state.error = MsgNoSubscribe
            /\ ~listener.state.isServiceConnected
            /\ ~listener.state.isListening
            /\ \A s \in registry : s.bridge # last.services
    /\ (Attached(last, "Display") /\ last.services \in Bridges \ CapableBridges) =>
            /\ display.state.error \in {MsgNoSubscribe, MsgNoGet}
            /\ display.state.error = MsgNoSubscribe => ~HasOnPageContextChange(last.services)
            /\ display.state.error = MsgNoGet => ~HasGetCurrentPageContext(last.services)
            /\ last.services = "noSub" => display.state.error = MsgNoSubscribe
            /\ ~display.state.isServiceConnected
            /\ \A s \in registry : s.bridge # last.services

\* C5 witness: a connected listener is handed a bridge that lacks only
\* getCurrentPageContext.
C5_Witness ==
    /\ Attached(last, "Listener") /\ last.op = "update"
    /\ last.from \in CapableBridges
    /\ last.services = "noGet"
    /\ listener.state.error = MsgNoGet

\* C6: a getCurrentPageContext that throws during attach is absorbed by the
\* wrapper's setServiceBridge (connected, no cached context, no subscription
\* made) and by PageContextListener (connected, listening, subscribed, no
\* current context, empty history); PageContextDisplay treats it as fatal:
\* not connected, the failure as its error, no callback registered.
C6_RetrievalFailure ==
    [][/\ (last'.who = "Service" /\ last'.op = "setServiceBridge"
                /\ last'.bridge # "undefined" /\ last'.retrieved = Threw) =>
            /\ last'.raised = ""
            /\ service'.isConnected
            /\ service'.serviceBridge = last'.bridge
            /\ service'.currentContext = Null
            /\ registry' = registry
       /\ (Attached(last', "Listener") /\ last'.retrieved = Threw /\ ~last'.subThrew) =>
            /\ listener'.state.isServiceConnected
            /\ listener'.state.isListening
            /\ listener'.state.error = ""
            /\ listener'.state.currentContext = Null
            /\ listener'.state.changeHistory = <<>>
            /\ \E s \in registry' :
                    /\ s.id = listener'.pageContextUnsubscribe
                    /\ s.bridge = last'.services
                    /\ s.owner = "Listener" /\ ~s.failed
       /\ (Attached(last', "Display") /\ last'.retrieved = Threw) =>
            /\ ~display'.state.isServiceConnected
            /\ display'.state.error = MsgRetrieveThrew
            /\ \A s \in registry' : s.bridge = last'.services => s \in registry]_vars

\* C6 witness: a listener showing a context is handed another bridge whose
\* getCurrentPageContext throws, and ends connected to it.
C6_Witness ==
    /\ Attached(last, "Listener") /\ last.op = "update"
    /\ last.retrieved = Threw /\ last.hadHistory
    /\ last.outcome = "connected"
    /\ listener.state.currentContext = Null

\* C6 as stated: on every attach path a throwing retrieval leaves the client
\* connected without an error.
C6_RetrievalAbsorbedEverywhere ==
    /\ (last.who = "Service" /\ last.op = "setServiceBridge" /\ last.retrieved = Threw) =>
            last.raised = "" /\ service.isConnected
    /\ (Attached(last, "Listener") /\ last.retrieved = Threw /\ ~last.subThrew) =>
            listener.state.isServiceConnected /\ listener.state.error = ""
    /\ (Attached(last, "Display") /\ last.retrieved = Threw) =>
            display.state.isServiceConnected /\ display.state.error = ""

\* the listener was connected to one capable bridge and has just connected
\* to another one
Reattached ==
    /\ Attached(last, "Listener") /\ last.op = "update"
    /\ last.from \in CapableBridges
    /\ last.services \in CapableBridges
    /\ last.outcome = "connected"

\* C7: after the listener moves from one capable bridge to another, no entry
\* recorded before the move is left in the history: every entry is the
\* initial load stamped by this attach, and there is none when the new
\* bridge had no context to give.
C7_NoEntrySurvivesReattach ==
    Reattached =>
        /\ \A i \in DOMAIN History :
                /\ History[i].timestamp = now
                /\ History[i].changeType = "Initial Load"
        /\ ~Truthy(last.retrieved) => History = <<>>

\* C7 witness: a listener with a history moved from b1 to b2, which had a
\* context to give.
C7_Witness ==
    /\ Reattached
    /\ last.from = "b1" /\ last.services = "b2"
    /\ last.hadHistory
    /\ last.retrieved = CtxA
    /\ Len(History) = 1

\* C7 as stated: the history is empty after the move.
C7_EmptyAfterReattach == (Reattached /\ last.hadHistory) => History = <<>>

\* C8: right after a successful attach the history is the single Initial
\* Load entry for the context retrieved, with no previous context, or is
\* empty when no context was retrieved.
C8_InitialHistory ==
    (Attached(last, "Listener") /\ last.outcome = "connected") =>
        History = IF Truthy(last.retrieved)
                  THEN <<[timestamp |-> now, previousContext |-> Null,
                          newContext |-> last.retrieved, changeType |-> "Initial Load"]>>
                  ELSE <<>>

\* C8 witness: a mount whose bridge answered with a context
C8_Witness ==
    /\ Attached(last, "Listener") /\ last.op = "mount"
    /\ last.outcome = "connected"
    /\ last.retrieved = CtxA
    /\ Len(History) = 1

\* C9: while the listener is not connected its history is empty.
C9_DisconnectedHistoryEmpty ==
    (listener.phase = "mounted" /\ ~listener.state.isServiceConnected) => History = <<>>

\* the callbacks a module has registered with the bridges
CallbacksOf(owner) == {s \in registry : s.owner = owner}

\* C10: every callback PageContextListener or PageContextDisplay has
\* registered is the one behind the handle it holds or one whose unsubscribe
\* call threw, so each has at most one callback it has not tried to remove;
\* the wrapper keeps one bridge callback for every onPageContextChange call
\* whose unsubscribe function has not been called.
C10_ForwardingSubscriptions ==
    /\ \A s \in CallbacksOf("Listener") :
            s.id = listener.pageContextUnsubscribe \/ s.failed
    /\ Cardinality({s \in CallbacksOf("Listener") : ~s.failed}) <= 1
    /\ \A s \in CallbacksOf("Display") :
            s.id = display.pageContextUnsubscribe \/ s.failed
    /\ Cardinality({s \in CallbacksOf("Display") : ~s.failed}) <= 1
    /\ \A h \in handles : ~h.called =>
            \E s \in CallbacksOf("Service") : s.id = h.id /\ s.listener = h.listener
    /\ Cardinality(CallbacksOf("Service")) >= Cardinality({h \in handles : ~h.called})

\* C10 witness: the same listener function was registered twice with the
\* wrapper and the bridge holds two callbacks for it.
C10_Witness ==
    /\ last.who = "Service" /\ last.op = "onPageContextChange" /\ last.raised = ""
    /\ service.listeners = {"f1"}
    /\ Cardinality({h \in handles : ~h.called /\ h.listener = "f1"}) = 2
    /\ Cardinality(CallbacksOf("Service")) = 2

\* C10 as stated, for the wrapper: it never has more than one callback
\* registered with the bridge.
C10_OneForwardingSubscription == Cardinality(CallbacksOf("Service")) <= 1

\* C11: getCurrentPageContext or onPageContextChange on a wrapper that was
\* never given a bridge raises SERVICE_UNAVAILABLE, registers nothing with
\* any bridge, hands out no unsubscribe function and leaves every field of
\* the wrapper (cached context, listener set, operation counter) as it was.
C11_UnavailableWithoutBridge ==
    [][(/\ last'.who = "Service"
        /\ last'.op \in {"getCurrentPageContext", "onPageContextChange"}
        /\ service.serviceBridge = "undefined") =>
            /\ last'.raised = "SERVICE_UNAVAILABLE"
            /\ service' = service
            /\ registry' = registry
            /\ handles' = handles]_vars

\* C11 witness: a listener is offered to a wrapper that has no bridge
C11_Witness ==
    /\ last.who = "Service" /\ last.op = "onPageContextChange"
    /\ last.raised = "SERVICE_UNAVAILABLE"
    /\ service.serviceBridge = "undefined"
    /\ service.listeners = {} /\ service.operationCount = 0
    /\ registry = {}

\* C12: calling an unsubscribe function of the wrapper again is a no-op: the
\* bridge's unsubscribe function is not called another time, the wrapper's
\* fields and the bridge's callbacks stay as they are, and the wrapper is
\* still connected.
C12_SecondCallIsNoOp ==
    [][(/\ last'.who = "Service" /\ last'.op = "unsubscribe"
        /\ last'.handle.called) =>
            /\ last'.bridgeCalls = 0
            /\ service' = service
            /\ registry' = registry
            /\ service'.isConnected]_vars

\* C13: getCurrentPageContext raises INVALID_CONTEXT exactly when the bridge
\* answered with a value that is not absent and has a missing, non-string or
\* empty pageId, pageName or pageRoute; otherwise it returns the value.
C13_InvalidContextRejected ==
    (/\ last.who = "Service" /\ last.op = "getCurrentPageContext"
     /\ last.raised \in {"", "INVALID_CONTEXT"}) =>
        (last.raised = "INVALID_CONTEXT"
            <=> (Truthy(last.retrieved) /\ ~WellFormed(last.retrieved)))

\* C14: a successful getCurrentPageContext of the wrapper caches the value
\* the bridge answered and counts one more operation, and changes nothing
\* else: listener set, bridge, connection flag, bridge callbacks and handed
\* out unsubscribe functions stay.  A successful handleRefresh of the display
\* shows the fields of the answered context (keeps the shown ones when the
\* answer is absent), empties the error, and leaves the connection flag, the
\* held unsubscribe function and the bridge callbacks alone.
C14_RefetchFrame ==
    [][/\ (/\ last'.who = "Service" /\ last'.op = "getCurrentPageContext"
           /\ last'.raised = "") =>
                /\ service' = [service EXCEPT !.currentContext = last'.retrieved,
                                              !.operationCount = @ + 1]
                /\ registry' = registry
                /\ handles' = handles
       /\ (/\ last'.who = "Display" /\ last'.op = "refresh"
           /\ last'.outcome = "refreshed") =>
                /\ display'.state.isServiceConnected = display.state.isServiceConnected
                /\ display'.state.error = ""
                /\ \A f \in {"pageId", "pageName", "pageRoute"} :
                        display'.state[f] = IF Truthy(last'.retrieved)
                                            THEN OrEmpty(last'.retrieved[f])
                                            ELSE display.state[f]
                /\ display'.pageContextUnsubscribe = display.pageContextUnsubscribe
                /\ registry' = registry]_vars

\* C14 witness: the wrapper, holding a subscription and a cache without
\* context, fetched a context from its bridge.
C14_Witness ==
    /\ last.who = "Service" /\ last.op = "getCurrentPageContext" /\ last.raised = ""
    /\ last.retrieved = CtxA
    /\ service.currentContext = CtxA
    /\ service.operationCount = 1
    /\ service.listeners = {"f1"}
    /\ CallbacksOf("Service") # {}

\* C14 as stated: the stored context is the only thing a successful
\* getCurrentPageContext changes.
C14_OnlyContextChanges ==
    [][(/\ last'.who = "Service" /\ last'.op = "getCurrentPageContext"
        /\ last'.raised = "") =>
            service' = [service EXCEPT !.currentContext = last'.retrieved]]_vars

\* the unsubscribe function a component holds
HandleOf(who) ==
    IF who = "Listener" THEN listener.pageContextUnsubscribe
    ELSE display.pageContextUnsubscribe

\* C15: unmounting PageContextListener or PageContextDisplay calls the held
\* unsubscribe function and touches nothing of the component's state (stored
\* context, history and flags stay as they were).  When the call returns, the
\* handle is dropped and the callback is gone from the bridge, leaving only
\* callbacks whose unsubscribe threw earlier; when it throws, the handle is
\* kept and the callback stays registered.
C15_UnmountUnsubscribes ==
    [][\A who \in {"Listener", "Display"} :
        (last'.op = "unmount" /\ last'.who = who) =>
            /\ listener'.state = listener.state
            /\ display'.state = display.state
            /\ ~last'.unsubThrew =>
                    /\ HandleOf(who)' = NoHandle
                    /\ \A s \in registry' : s.id # HandleOf(who)
                    /\ \A s \in registry' : s.owner = who => s.failed
            /\ last'.unsubThrew =>
                    /\ HandleOf(who)' = HandleOf(who)
                    /\ \E s \in registry' : s.id = HandleOf(who) /\ s.failed]_vars

\* C15 witness: a listening PageContextListener with a history is unmounted
\* and its callback leaves the bridge.
C15_Witness ==
    /\ last.op = "unmount" /\ last.who = "Listener" /\ ~last.unsubThrew
    /\ listener.phase = "unmounted"
    /\ History # <<>>
    /\ listener.state.isListening
    /\ listener.pageContextUnsubscribe = NoHandle
    /\ registry = {}

\* C15 as stated: after the unmount the stored context and the history are
\* cleared, the component is neither connected nor listening, and none of its
\* callbacks is registered.
C15_UnmountClears ==
    (last.op = "unmount" /\ last.who = "Listener") =>
        /\ listener.state.currentContext = Null
        /\ History = <<>>
        /\ ~listener.state.isServiceConnected
        /\ ~listener.state.isListening
        /\ CallbacksOf("Listener") = {}

\* C16, for the wrapper: once another bridge has been set, a notification
\* through a callback registered with the previous bridge does not change the
\* cached context and reaches no listener.
C16_OldBridgeDetached ==
    [][(last'.who = "Service" /\ last'.op = "notify") =>
        \A s \in registry :
            (s.id = last'.id /\ s.bridge # service.serviceBridge) =>
                /\ service'.currentContext = service.currentContext
                /\ last'.invoked = <<>>]_vars

\* C17, for the wrapper: whatever a listener throws while a notification is
\* forwarded to it, nothing is raised towards the bridge that invoked the
\* callback.
C17_ListenerErrorContained ==
    (last.who = "Service" /\ last.op = "notify") => last.raised = ""

\* the listeners a sequence of calls went to
Listeners(calls) == [i \in DOMAIN calls |-> calls[i].listener]

\* C18: when a bridge announces a change, the wrapper's callbacks registered
\* with that bridge run once each, in the order they were registered: every
\* one caches the new context and then calls its own listener with it, so a
\* function registered n times with that bridge is called n times and every
\* listener finds the cache already updated.
C18_OneCallPerRegistration ==
    (last.who = "Service" /\ last.op = "emit") =>
        LET callbacks == {s \in registry : s.owner = "Service" /\ s.bridge = last.bridge}
        IN  /\ Listeners(last.calls) = Listeners(InRegistrationOrder(callbacks))
            /\ \A i \in DOMAIN last.calls :
                    /\ last.calls[i].argument = last.payload
                    /\ last.calls[i].cached = last.payload
            /\ service.currentContext = last.payload

\* C18 witness: one function was registered twice and the bridge announced a
\* context: the function was called twice while the listener set holds it once.
C18_Witness ==
    /\ last.who = "Service" /\ last.op = "emit" /\ last.payload = CtxA
    /\ Listeners(last.calls) = <<"f1", "f1">>
    /\ service.listeners = {"f1"}
    /\ service.currentContext = CtxA

\* C18 as stated: when the bridge announces a change and none of its
\* unsubscribe calls has failed, every function registered and not yet
\* unsubscribed is called exactly once.
C18_EveryListenerOnce ==
    (/\ last.who = "Service" /\ last.op = "emit"
     /\ \A s \in registry : ~s.failed) =>
        \A fn \in {h.listener : h \in {g \in handles : ~g.called}} :
            Cardinality({i \in DOMAIN last.calls : last.calls[i].listener = fn}) = 1

\* the connection state the two flags of PageContextListener stand for
ListenerConnection(st) ==
    CASE ~st.isServiceConnected /\ ~st.isListening -> "Disconnected"
      [] st.isServiceConnected /\ ~st.isListening -> "Connected"
      [] st.isServiceConnected /\ st.isListening -> "Listening"
      [] OTHER -> "none"

\* the connection state of the wrapper: Listening while a bridge holds one of
\* its forwarding callbacks
WrapperConnection(st, reg) ==
    IF ~st.isConnected THEN "Disconnected"
    ELSE IF \E s \in reg : s.owner = "Service" THEN "Listening"
    ELSE "Connected"

\* C19: PageContextListener is only ever Disconnected or Listening, never
\* Connected without listening: a successful initialisation takes it from
\* Disconnected straight to Listening, and an initialisation without bridge
\* or a failed one takes it back to Disconnected.  The wrapper moves
\* Disconnected -> Connected by setServiceBridge, Connected -> Listening by
\* onPageContextChange and Listening -> Connected by an unsubscribe call; it
\* never returns to Disconnected.
C19_ConnectionEdges ==
    [][LET from == ListenerConnection(listener.state)
           to == ListenerConnection(listener'.state)
           wfrom == WrapperConnection(service, registry)
           wto == WrapperConnection(service', registry')
       IN  /\ to \in {"Disconnected", "Listening"}
           /\ (from = "Disconnected" /\ to = "Listening") =>
                    Attached(last', "Listener") /\ last'.outcome = "connected"
           /\ (from = "Listening" /\ to = "Disconnected") =>
                    Attached(last', "Listener") /\ last'.outcome \in {"failed", "nobridge"}
           /\ wfrom # wto =>
                    \/ /\ wfrom = "Disconnected" /\ wto = "Connected"
                       /\ last'.op = "setServiceBridge"
                    \/ /\ wfrom = "Connected" /\ wto = "Listening"
                       /\ last'.op = "onPageContextChange"
                    \/ /\ wfrom = "Listening" /\ wto = "Connected"
                       /\ last'.op = "unsubscribe"]_vars

\* C19 witness: mounting with a capable bridge took the listener from
\* Disconnected to Listening in one step.
C19_Witness ==
    /\ Attached(last, "Listener") /\ last.op = "mount"
    /\ last.outcome = "connected"
    /\ ListenerConnection(listener.state) = "Listening"
    /\ listener.pageContextUnsubscribe # NoHandle

\* C19 as stated: the listener's connection state moves only along
\* Disconnected -> Connected, Connected -> Listening, Listening -> Connected,
\* Connected -> Disconnected and Listening -> Disconnected.
C19_NoDirectListening ==
    [][LET from == ListenerConnection(listener.state)
           to == ListenerConnection(listener'.state)
       IN  from # to =>
                <<from, to>> \in {<<"Disconnected", "Connected">>,
                                  <<"Connected", "Listening">>,
                                  <<"Listening", "Connected">>,
                                  <<"Connected", "Disconnected">>,
                                  <<"Listening", "Disconnected">>}]_vars

\* C20: after removeAllListeners no forwarding callback of the wrapper is
\* left with a bridge, and while the listener set is empty a notification
\* calls no listener and leaves the cached context alone.
C20_RemoveAllCleansUp ==
    [][/\ (last'.who = "Service" /\ last'.op = "removeAllListeners") =>
            \A s \in registry' : s.owner # "Service"
       /\ (/\ last'.who = "Service" /\ last'.op \in {"notify", "emit"}
           /\ service.listeners = {}) =>
                /\ last'.calls = <<>>
                /\ service'.currentContext = service.currentContext]_vars

\* C21: the history counts the initial load plus every change.  After an
\* attach that found a context, followed by n well-formed notifications with
\* no clear, re-attach or unmount in between (tracked = n + 1), the rendered
\* history has min(n + 1, 10) entries, the newest is the latest notification
\* (the initial load itself when n = 0), and while fewer than ten events were
\* counted the oldest entry is the initial load.
C21_InitialPlusChanges ==
    (listener.phase = "mounted" /\ listener.tracked > 0 /\ listener.pending = <<>>) =>
        /\ Len(History) = Min(listener.tracked, HistoryCap)
        /\ History[1].timestamp = now
        /\ History[1].newContext = listener.state.currentContext
        /\ (last.op = "notify" /\ last.outcome = "recorded") =>
                History[1].newContext = last.payload
        /\ (listener.tracked = 1) = (History[1].changeType = "Initial Load")
        /\ listener.tracked <= HistoryCap =>
                /\ History[listener.tracked].changeType = "Initial Load"
                /\ History[listener.tracked].previousContext = Null

\* C21 witness: the attach found a context and eleven notifications followed;
\* the history is full and its newest entry is the eleventh notification.
C21_Witness ==
    /\ listener.phase = "mounted" /\ listener.pending = <<>>
    /\ listener.tracked = 12
    /\ last.op = "notify" /\ last.outcome = "recorded"
    /\ Len(History) = HistoryCap
    /\ History[1].timestamp = now

\* C22: notifications are processed atomically with respect to the
\* component's state: in every history each entry's previous context is the
\* new context of the entry immediately older than it, also when two
\* notifications arrive before the pending state updates are rendered.
C22_PreviousChainsToOlder ==
    \A i \in 1..(Len(History) - 1) :
        (WellFormed(History[i].newContext) /\ WellFormed(History[i + 1].newContext)) =>
            History[i].previousContext = History[i + 1].newContext

\* C23: no valid notification is lost.  A well-formed context the bridge
\* hands to the component's callback, be it after the attach or from inside
\* the bridge's subscribe call, is the stored current context and the newest
\* entry of the history once it is rendered; the state the attach writes
\* never overwrites it.
C23_NoNotificationLost ==
    /\ (last.op = "notify" /\ last.who = "Listener" /\ last.outcome = "recorded"
            /\ WellFormed(last.payload)) =>
            /\ listener.state.currentContext = last.payload
            /\ History # <<>> /\ History[1].newContext = last.payload
    /\ (Attached(last, "Listener") /\ last.outcome = "connected"
            /\ WellFormed(last.early)) =>
            /\ listener.state.currentContext = last.early
            /\ History # <<>> /\ History[1].newContext = last.early

\* the callback registered under the handle a component holds is still
\* registered with its bridge
HoldsActiveSubscription(who) ==
    /\ HandleOf(who) # NoHandle
    /\ \E s \in registry : s.id = HandleOf(who) /\ s.owner = who

\* C24: a mounted component reports Listening/Connected exactly when it holds
\* an active bridge subscription: the listener's isListening is true if and
\* only if the callback of its handle is registered, isListening implies
\* isServiceConnected, and the display's isServiceConnected is true if and only
\* if the callback of its handle is registered; also after an unsubscribe
\* function threw during cleanup.
C24_ListeningIffSubscribed ==
    /\ listener.phase = "mounted" =>
            /\ listener.state.isListening = HoldsActiveSubscription("Listener")
            /\ listener.state.isListening => listener.state.isServiceConnected
    /\ display.phase = "mounted" =>
            display.state.isServiceConnected = HoldsActiveSubscription("Display")

\* C25: a getCurrentPageContext call that fails is recoverable and leaves the
\* client as it was.  With a bridge attached, a retrieval that throws raises
\* GET_CONTEXT_FAILED and a returned object with a field that is no string
\* raises INVALID_CONTEXT; either way the cached context, the operation
\* counter, the connection flag and state, the listener set, the bridge
\* callbacks and the handles are the same before and after.  A refresh of
\* PageContextDisplay whose retrieval throws only sets the error text: the
\* shown page fields, the connection flag and the subscription stay.
C25_FailedRetrievalFrame ==
    [][/\ (last'.op = "getCurrentPageContext" /\ IsServiceAvailable) =>
            /\ last'.retrieved = Threw => last'.raised = "GET_CONTEXT_FAILED"
            /\ last'.retrieved = NumberNameCtx => last'.raised = "INVALID_CONTEXT"
            /\ last'.raised \in {"GET_CONTEXT_FAILED", "INVALID_CONTEXT"} =>
                    /\ service' = service
                    /\ service'.isConnected
                    /\ WrapperConnection(service', registry') = WrapperConnection(service, registry)
                    /\ registry' = registry
                    /\ handles' = handles
       /\ (last'.op = "refresh" /\ last'.retrieved = Threw) =>
            /\ last'.outcome = "failed"
            /\ display' = [display EXCEPT !.state.error = MsgRefreshThrew]
            /\ display'.state.isServiceConnected
            /\ registry' = registry]_vars

\* C25 witness: the wrapper holds a cached context, a counted operation and a
\* forwarding callback, and the call that just ran failed.
C25_Witness ==
    /\ last.op = "getCurrentPageContext"
    /\ last.raised \in {"GET_CONTEXT_FAILED", "INVALID_CONTEXT"}
    /\ service.currentContext = CtxA
    /\ service.operationCount = 1
    /\ WrapperConnection(service, registry) = "Listening"

\* registrations made through onPageContextChange whose unsubscribe function
\* has not been called yet
OpenRegistrations(hs) == {h \in hs : ~h.called}

\* C26: the activeListeners statistic equals the number of registrations not
\* yet unsubscribed, for every sequence of registrations and unsubscriptions:
\* every successful onPageContextChange and every call of a returned
\* unsubscribe function takes a wrapper whose statistic is right to one whose
\* statistic is right, also when the same listener function is registered
\* more than once.
C26_ActiveListenersCountsRegistrations ==
    [][(/\ last'.op \in {"onPageContextChange", "unsubscribe"}
        /\ last'.raised = ""
        /\ ActiveListeners = Cardinality(OpenRegistrations(handles))) =>
            Cardinality(service'.listeners) = Cardinality(OpenRegistrations(handles'))]_vars

\* C27: handleClearHistory empties the history and leaves everything else as
\* it was: the stored current context (the one of the updates already
\* queued, when React had held some back), the error, the connected and
\* listening flags, the held handle and the bridge's callbacks.  The next
\* notification that is recorded is classified against the retained context,
\* so it is no Initial Load when a context was stored, and the history then
\* holds exactly that one entry.
C27_ClearKeepsContext ==
    [][/\ last'.op = "clear" =>
            /\ listener'.state.changeHistory = <<>>
            /\ listener'.state = [ApplyAll(listener.state, listener.pending)
                                    EXCEPT !.changeHistory = <<>>]
            /\ listener.pending = <<>> =>
                    listener'.state.currentContext = listener.state.currentContext
            /\ listener'.state.isServiceConnected = listener.state.isServiceConnected
            /\ listener'.state.isListening = listener.state.isListening
            /\ listener'.pageContextUnsubscribe = listener.pageContextUnsubscribe
            /\ listener'.services = listener.services
            /\ registry' = registry
       /\ (last.op = "clear" /\ last'.op = "notify" /\ last'.outcome = "recorded") =>
            LET new == listener'.state.changeHistory
            IN  /\ Len(new) = 1
                /\ new[1].newContext = last'.payload
                /\ new[1].previousContext = listener.state.currentContext
                /\ Truthy(listener.state.currentContext) => new[1].changeType # "Initial Load"
                /\ listener'.state.currentContext = last'.payload]_vars

\* C27 witness: a history that was cleared while a context was stored, and
\* the one notification recorded since, classified against that context.
C27_Witness ==
    /\ last.op = "notify" /\ last.outcome = "recorded"
    /\ listener.state.isListening
    /\ Len(History) = 1
    /\ History[1].previousContext = CtxA
    /\ History[1].changeType # "Initial Load"

C29_OneListenerNoneAfterCleanup ==
    /\ Cardinality(themeListeners) <= 1
    /\ plugin.phase = "unmounted" => themeListeners = {}

\* C30: every run of initializePlugin on a mounted component ends with
\* isInitializing false, with an empty error when it succeeded and a
\* non-empty error when a theme-service call threw; handleRetry puts the
\* component back into the initializing state with the error cleared, and
\* that run ends the same way.  (That a run which reached its delay does end
\* is InitializationTerminates.)
C30_RunEndsWithVerdict ==
    /\ (last.who = "Plugin" /\ last.op \in {"mount", "retry"} /\ last.outcome = "failed") =>
            /\ ~plugin.state.isInitializing
            /\ plugin.state.error # ""
    /\ (last.who = "Plugin" /\ last.op = "retry" /\ last.outcome = "awaiting") =>
            /\ plugin.state.isInitializing
            /\ plugin.state.error = ""
    /\ (last.who = "Plugin" /\ last.op = "elapsed" /\ last.phase = "mounted") =>
            /\ ~plugin.state.isInitializing
            /\ plugin.state.error = ""

\* a run of initializePlugin that is waiting for its delay on a mounted
\* component ends with isInitializing false, unless the component is
\* unmounted first
InitializationTerminates ==
    (plugin.phase = "mounted" /\ plugin.state.isInitializing)
        ~> (plugin.phase = "unmounted" \/ ~plugin.state.isInitializing)

====
